---------------------------- MODULE Spec2Model ----------------------------
(***************************************************************************)
(* Distance-vector routing node of src/cvclient.py.                        *)
(*                                                                         *)
(* Two specifications share the translated functions:                      *)
(*   Spec     one node ("A") whose handlers are driven by arbitrary        *)
(*            inbound messages, operator commands, the periodic            *)
(*            broadcaster and the silence monitors, with time counted in   *)
(*            broadcast intervals;                                         *)
(*   NetSpec  three nodes A, B, C running the same code and exchanging     *)
(*            their broadcast vectors over datagram channels               *)
(*            (NetFairSpec adds the fairness of periodic broadcast and     *)
(*            eventual delivery).                                          *)
(*                                                                         *)
(* A Python dict is a record [order, at]: `order` is the insertion order   *)
(* of the keys (the iteration order of the dict), `at` maps a key to its   *)
(* value.  A node is a TLA+ record whose DOMAIN is the set of keys the     *)
(* Python dict of the node holds, so `'saved' in node` is                  *)
(* "saved" \in DOMAIN node.                                                *)
(***************************************************************************)
EXTENDS Integers, Sequences, FiniteSets, TLC

\* float("inf"); every finite cost of the model is far below it
Inf == 999

\* `None` for the optional numeric parameter of create_node
None == -1

\* the address of this node (sock.getsockname()) in Spec
me == "A"

\* host:port keys of the model
Addr == {"A", "B", "C"}

\* fixed enumeration of Addr, used to iterate a received vector's keys
AddrSeq == <<"A", "B", "C">>

\* monitor interval = 3 * run_args.timeout, counted in broadcast intervals
TimeoutFactor == 3

\* direct link costs carried by startup configuration and by messages
Directs == {1, 8}

\* new link costs an operator can type for linkchange (0 is below minimum)
NewDirects == {0, 1, 9}

\* costs a received vector can carry for a destination
AdvCosts == {0, 8}

\* number of handler invocations explored in Spec
MaxOps == 2

\* the value of e handed to F: `v = e; F(v)`, with e evaluated once
Let(e, F(_)) == CHOOSE r \in {F(v) : v \in {e}} : TRUE

\* a + b over floats with infinity
Plus(a, b) == IF a = Inf \/ b = Inf THEN Inf ELSE a + b

-----------------------------------------------------------------------------
(* Python dict / defaultdict primitives *)

EmptyDict == [order |-> <<>>, at |-> <<>>]

Keys(t) == DOMAIN t.at

\* nodes[k] = v
Set(t, k, v) ==
  [order |-> IF k \in Keys(t) THEN t.order ELSE Append(t.order, k),
   at    |-> [x \in Keys(t) \cup {k} |-> IF x = k THEN v ELSE t.at[x]]]

\* del nodes[k]
Del(t, k) ==
  [order |-> SelectSeq(t.order, LAMBDA x : x # k),
   at    |-> [x \in Keys(t) \ {k} |-> t.at[x]]]

\* del node[f] on a node record
DelField(node, f) == [x \in DOMAIN node \ {f} |-> node[x]]

\* node[f] = v on a node record
SetField(node, f, v) == [x \in DOMAIN node \cup {f} |-> IF x = f THEN v ELSE node[x]]

-----------------------------------------------------------------------------
(* ResettableTimer: one threading.Timer `countdown`; `left` is the number  *)
(* of broadcast intervals before it fires.                                 *)

ResettableTimer == [countdown |-> "running", left |-> TimeoutFactor]

\* Timer.cancel(): no effect on a timer that already fired
cancel(m) == IF m.countdown = "running" THEN [m EXCEPT !.countdown = "cancelled"] ELSE m

\* variant of reset that restarts the countdown without a new interval
reset_keep(m) == [m EXCEPT !.countdown = "running"]

\* cancel the countdown, create a new Timer and start it
reset(m) == ResettableTimer

-----------------------------------------------------------------------------
(* node records *)

default_node == [cost |-> Inf, is_neighbor |-> FALSE, route |-> ""]

create_node(cost, is_neighbor, direct, costs, addr) ==
  LET base == [cost        |-> cost,
               is_neighbor |-> is_neighbor,
               route       |-> IF is_neighbor THEN addr ELSE "",
               direct      |-> IF direct # None THEN direct ELSE Inf,
               costs       |-> costs]
  IN IF is_neighbor THEN SetField(base, "silence_monitor", ResettableTimer)
     ELSE base

\* defaultdict(lambda: default_node()).__getitem__: a missing key is inserted
Touch(t, k) == IF k \in Keys(t) THEN t ELSE Set(t, k, default_node)

\* sequence of the keys of the neighbors, in dict order
get_neighbors(t) == SelectSeq(t.order, LAMBDA a : t.at[a].is_neighbor)

in_network(t, addr) == addr \in Keys(t)

\* the lookup `node = nodes[addr]` runs even when the address is unknown
get_node(t, addr) == [table |-> Touch(t, addr), error |-> ~in_network(t, addr)]

-----------------------------------------------------------------------------
(* estimate_costs: Bellman-Ford relaxation over the current neighbors *)

\* variant of dist that leaves out the direct cost to the neighbor
dist_nodirect(neighbor, d) == neighbor.costs[d]

\* dist = neighbor['direct'] + neighbor['costs'][destination_addr]
dist(neighbor, d) == Plus(neighbor.direct, neighbor.costs[d])

\* if dist < cost
cheaper(d, cost) == d < cost

\* variant of ceiling that keeps every finite cost
ceiling_none(cost) == cost

\* if cost > 15: cost = float("inf")
ceiling(cost) == IF cost > 15 THEN Inf ELSE cost

\* the inner loop over get_neighbors().items() for destination d;
\* result <<cost, nexthop>>
RECURSIVE cheapest(_, _, _, _, _)
cheapest(t, d, nbrs, cost, nexthop) ==
  IF nbrs = <<>> THEN <<cost, nexthop>>
  ELSE LET neighbor_addr == Head(nbrs)
           neighbor      == t.at[neighbor_addr]
       IN Let(IF d \in DOMAIN neighbor.costs /\ cheaper(dist(neighbor, d), cost)
              THEN <<ceiling(dist(neighbor, d)), neighbor_addr>>
              ELSE <<cost, nexthop>>,
              LAMBDA r : cheapest(t, d, Tail(nbrs), r[1], r[2]))

\* the outer loop of estimate_costs over the table v, nbrs its neighbors
relax(v, nbrs, self) ==
  [v EXCEPT !.at =
     [a \in Keys(v) |->
        IF a # self
        THEN Let(cheapest(v, a, nbrs, Inf, ""),
                 LAMBDA r : [v.at[a] EXCEPT !.cost = r[1], !.route = r[2]])
        ELSE v.at[a]]]

estimate_costs(t, self) ==
  Let(t, LAMBDA v : Let(get_neighbors(v), LAMBDA nbrs : relax(v, nbrs, self)))

\* one iteration of the outer loop of estimate_costs, for destination d
relax_one(t, d, self) ==
  IF d = self THEN t
  ELSE Let(cheapest(t, d, get_neighbors(t), Inf, ""),
           LAMBDA r : Set(t, d, [t.at[d] EXCEPT !.cost = r[1], !.route = r[2]]))

\* the rest of the outer loop, for the destinations todo
RECURSIVE finish(_, _, _)
finish(t, todo, self) ==
  IF todo = <<>> THEN t
  ELSE Let(relax_one(t, Head(todo), self), LAMBDA t1 : finish(t1, Tail(todo), self))

-----------------------------------------------------------------------------
(* update_costs *)

\* for node in costs: if node not in nodes: nodes[node] = default_node()
RECURSIVE learn(_, _, _)
learn(t, costs, i) ==
  IF i > Len(AddrSeq) THEN t
  ELSE LET node == AddrSeq[i]
       IN Let(IF node \in DOMAIN costs /\ node \notin Keys(t)
              THEN Set(t, node, default_node) ELSE t,
              LAMBDA t1 : learn(t1, costs, i + 1))

\* variant of promote that does not adopt the direct cost of the message
promote_nodirect(t, addr, direct, costs) ==
  Let(Touch(Del(t, addr), addr),
      LAMBDA t1 : Set(t1, addr, create_node(t1.at[addr].cost, TRUE, None, costs, addr)))

\* the branch `if not nodes[addr]['is_neighbor']`: the entry is deleted, the
\* argument nodes[addr]['cost'] re-creates a default entry, and the new
\* neighbor node is stored under the re-created key
promote(t, addr, direct, costs) ==
  Let(Touch(Del(t, addr), addr),
      LAMBDA t1 : Set(t1, addr, create_node(t1.at[addr].cost, TRUE, direct, costs, addr)))

\* variant of refresh that resets the monitor but drops the received vector
refresh_nostore(t, addr, costs) ==
  Set(t, addr, [t.at[addr] EXCEPT !.silence_monitor = reset(@)])

\* the else branch: node['costs'] = costs; node['silence_monitor'].reset()
refresh(t, addr, costs) ==
  Set(t, addr, [t.at[addr] EXCEPT !.costs = costs,
                                  !.silence_monitor = reset(@)])

\* update_costs up to, not including, the call of estimate_costs
store(t, addr, direct, costs) ==
  Let(Touch(learn(t, costs, 1), addr),
      LAMBDA t1 : IF ~t1.at[addr].is_neighbor
                  THEN promote(t1, addr, direct, costs)
                  ELSE refresh(t1, addr, costs))

update_costs(t, self, addr, direct, costs) ==
  estimate_costs(store(t, addr, direct, costs), self)

-----------------------------------------------------------------------------
(* link control *)

\* variant of linkchange_at without the minimum-cost check
linkchange_nomin(g, self, addr, direct) ==
  LET node == g.table.at[addr]
  IN IF g.error THEN g.table
     ELSE IF ~node.is_neighbor THEN g.table
     ELSE IF "saved" \in DOMAIN node THEN g.table
     ELSE estimate_costs(Set(g.table, addr, [node EXCEPT !.direct = direct]), self)

\* linkchange after `node, addr, err = get_node(host, port)`
linkchange_at(g, self, addr, direct) ==
  LET node == g.table.at[addr]
  IN IF g.error THEN g.table
     ELSE IF ~node.is_neighbor THEN g.table
     ELSE IF direct < 1 THEN g.table
     ELSE IF "saved" \in DOMAIN node THEN g.table
     ELSE estimate_costs(Set(g.table, addr, [node EXCEPT !.direct = direct]), self)

linkchange(t, self, addr, direct) ==
  Let(get_node(t, addr), LAMBDA g : linkchange_at(g, self, addr, direct))

\* variant of linkdown_at that saves the direct cost after overwriting it
linkdown_savelate(g, self, addr) ==
  LET node == g.table.at[addr]
  IN IF g.error THEN g.table
     ELSE IF ~node.is_neighbor THEN g.table
     ELSE LET n1 == [node EXCEPT !.direct = Inf,
                                 !.is_neighbor = FALSE,
                                 !.silence_monitor = cancel(@)]
          IN estimate_costs(Set(g.table, addr, SetField(n1, "saved", n1.direct)), self)

\* linkdown after `node, addr, err = get_node(host, port)`
linkdown_at(g, self, addr) ==
  LET node == g.table.at[addr]
  IN IF g.error THEN g.table
     ELSE IF ~node.is_neighbor THEN g.table
     ELSE LET n1 == SetField(node, "saved", node.direct)
              n2 == [n1 EXCEPT !.direct = Inf,
                               !.is_neighbor = FALSE,
                               !.silence_monitor = cancel(@)]
          IN estimate_costs(Set(g.table, addr, n2), self)

linkdown(t, self, addr) ==
  Let(get_node(t, addr), LAMBDA g : linkdown_at(g, self, addr))

\* linkup after `node, addr, err = get_node(host, port)`
linkup_at(g, self, addr) ==
  LET node == g.table.at[addr]
  IN IF g.error THEN g.table
     ELSE IF "saved" \notin DOMAIN node THEN g.table
     ELSE LET n1 == [node EXCEPT !.direct = node.saved, !.is_neighbor = TRUE]
          IN estimate_costs(Set(g.table, addr, DelField(n1, "saved")), self)

linkup(t, self, addr) ==
  Let(get_node(t, addr), LAMBDA g : linkup_at(g, self, addr))

\* the recomputation is reached (no early return)
linkchange_ok(t, addr, direct) ==
  /\ in_network(t, addr) /\ t.at[addr].is_neighbor
  /\ direct >= 1 /\ "saved" \notin DOMAIN t.at[addr]

linkdown_ok(t, addr) == in_network(t, addr) /\ t.at[addr].is_neighbor

linkup_ok(t, addr) == in_network(t, addr) /\ "saved" \in DOMAIN t.at[addr]

-----------------------------------------------------------------------------
(* The receive branch of the main loop for a datagram whose payload may    *)
(* lack keys.  kwargs is the payload: a record with some of the keys       *)
(* costs, neighbor, direct.  The result is the table the handler leaves    *)
(* and whether it raised (a KeyError is caught nowhere: the main loop and  *)
(* with it the process end).                                               *)

\* update_costs(host, port, **kwargs)
update_costs_kw(t, self, addr, kwargs) ==
  IF "costs" \notin DOMAIN kwargs
  THEN [table |-> t, raised |-> TRUE]                \* costs = kwargs['costs']
  ELSE Let(Touch(learn(t, kwargs.costs, 1), addr),
           LAMBDA t1 :
             IF ~t1.at[addr].is_neighbor
             THEN IF "neighbor" \in DOMAIN kwargs /\ "direct" \in DOMAIN kwargs.neighbor
                  THEN [table  |-> estimate_costs(promote(t1, addr, kwargs.neighbor.direct,
                                                          kwargs.costs), self),
                        raised |-> FALSE]
                  \* del nodes[addr]; cost = nodes[addr]['cost'] re-creates a
                  \* default entry; direct = kwargs['neighbor']['direct'] raises
                  ELSE [table |-> Touch(Del(t1, addr), addr), raised |-> TRUE]
             ELSE [table  |-> estimate_costs(refresh(t1, addr, kwargs.costs), self),
                   raised |-> FALSE])

\* linkchange(host, port, **kwargs)
linkchange_kw(t, self, addr, kwargs) ==
  Let(get_node(t, addr),
      LAMBDA g :
        IF g.error \/ ~g.table.at[addr].is_neighbor
        THEN [table |-> g.table, raised |-> FALSE]
        ELSE IF "direct" \notin DOMAIN kwargs
        THEN [table |-> g.table, raised |-> TRUE]    \* direct = kwargs['direct']
        ELSE [table |-> linkchange_at(g, self, addr, kwargs.direct), raised |-> FALSE])

\* the keys of `updates`
Kinds == {"costsupdate", "linkdown", "linkup", "linkchange"}

\* update = loaded['type']; payload = loaded['payload'];
\* if update not in updates: continue; updates[update](*sender, **payload)
dispatch(t, self, sender, m) ==
  IF m.type \notin Kinds THEN [table |-> t, raised |-> FALSE]
  ELSE IF m.type = "costsupdate" THEN update_costs_kw(t, self, sender, m.payload)
  ELSE IF m.type = "linkchange" THEN linkchange_kw(t, self, sender, m.payload)
  ELSE IF m.type = "linkdown" THEN [table |-> linkdown(t, self, sender), raised |-> FALSE]
  ELSE [table |-> linkup(t, self, sender), raised |-> FALSE]

-----------------------------------------------------------------------------
(* broadcast_costs: the payload sent to each neighbor *)

\* variant of poisoned_costs that advertises the stored costs to everyone
poisoned_costs_plain(t, self, neighbor_addr) ==
  [dest_addr \in Keys(t) |-> t.at[dest_addr].cost]

\* the poison-reverse loop for one neighbor
poisoned_costs(t, self, neighbor_addr) ==
  [dest_addr \in Keys(t) |->
     IF dest_addr \notin {self, neighbor_addr} /\ t.at[dest_addr].route = neighbor_addr
     THEN Inf
     ELSE t.at[dest_addr].cost]

\* payload per neighbor: { 'costs': ..., 'neighbor': { 'direct': ... } }
broadcast_costs(t, self) ==
  [n \in {a \in Keys(t) : t.at[a].is_neighbor} |->
     [costs  |-> poisoned_costs(t, self, n),
      direct |-> t.at[n].direct]]

\* parse_argv + __main__: the table after startup for the configured
\* neighbor list (sequence of <<addr, cost>>), self stored last
RECURSIVE configure(_, _)
configure(t, links) ==
  IF links = <<>> THEN t
  ELSE configure(Set(t, Head(links)[1],
                     create_node(Head(links)[2], TRUE, Head(links)[2], <<>>, Head(links)[1])),
                 Tail(links))

startup(self, links) ==
  Set(configure(EmptyDict, links), self, create_node(0, FALSE, 0, <<>>, self))

-----------------------------------------------------------------------------
(* State.                                                                  *)
(*   nodes    the node table of node `me` (Spec)                           *)
(*   sent     payloads handed to the socket by the broadcast in progress,  *)
(*            per neighbor; taken by the transport before the next handler *)
(*   last     record of the handler that ran last (history): its kind, the *)
(*            address it was about, the direct cost it adopted or set (None *)
(*            when the handler ignores the one it was given), the vector   *)
(*            received, whether the address was a key before, whether the  *)
(*            handler reached its recomputation, for the link round trip   *)
(*            the direct cost before link-down, and for a datagram taken   *)
(*            from the socket (RecvSpec) the datagram and whether its      *)
(*            handler raised                                               *)
(*   quiet    per address, broadcast intervals elapsed since its monitor   *)
(*            was last started or reset (history, capped)                  *)
(*   fires    per address, link-down calls made by its current countdown   *)
(*   firedAt  per address, value of quiet when the countdown fired, or -1  *)
(*   ops      handler invocations so far (bounded by MaxOps)               *)
(*   net      node tables of the three nodes (NetSpec)                     *)
(*   chan     datagram in flight from one node to another, chan[<<from,    *)
(*            to>>] is <<>> or <<datagram>>                                *)
(*   pc       position of the main thread (RaceSpec): in select(), or in   *)
(*            the loop of estimate_costs with the destinations `todo` left *)
(*   whole    the tables that stood when an operation had completed        *)
(*            (history, RaceSpec)                                          *)
(*   timers   per address, position of the Timer thread whose countdown    *)
(*            ran out (RaceSpec): "none", "checked" once it has found the  *)
(*            countdown not cancelled and is about to call linkdown,       *)
(*            "superseded" when the monitor was reset or cancelled since   *)
(*   phase    progress of the link-break scenario (history): "up" until    *)
(*            the operator of A types linkdown B, "downA" once link-down   *)
(*            is applied at A, "broken" once B has handled the message     *)

VARIABLES nodes, sent, last, quiet, fires, firedAt, ops, net, chan, phase,
          pc, whole, timers

vars == <<nodes, sent, last, quiet, fires, firedAt, ops, net, chan, phase,
          pc, whole, timers>>

nodeVars == <<nodes, sent, last, quiet, fires, firedAt, ops>>

netVars == <<net, chan, phase>>

raceVars == <<pc, whole, timers>>

\* vectors a cost-update can carry: any subset of the addresses as keys, one
\* cost for the keys of a vector (estimate_costs treats each destination on
\* its own, so every combination of the neighbors' costs for a destination
\* is covered)
Vectors == UNION {[S -> {v}] : S \in SUBSET Addr, v \in AdvCosts}

\* startup configurations (the neighbor list of the command line): B alone,
\* or B and C
Configs ==
  {<<<<"B", 1>>>>, <<<<"B", 8>>, <<"C", 1>>>>}

NoOp == [op |-> "startup", addr |-> "", direct |-> None, costs |-> <<>>,
         known |-> TRUE, acted |-> FALSE, pre |-> None, roundtrip |-> FALSE,
         msg |-> <<>>, raised |-> FALSE]

HasMonitor(t, a) == a \in Keys(t) /\ "silence_monitor" \in DOMAIN t.at[a]

Running(t, a) == HasMonitor(t, a) /\ t.at[a].silence_monitor.countdown = "running"

Bump(q) == IF q > TimeoutFactor THEN q ELSE q + 1

NodeInit ==
  /\ \E links \in Configs : nodes = startup(me, links)
  /\ sent = <<>>
  /\ last = NoOp
  /\ quiet = [a \in Addr |-> 0]
  /\ fires = [a \in Addr |-> 0]
  /\ firedAt = [a \in Addr |-> -1]
  /\ ops = 0

NetIdle ==
  /\ net = <<>>
  /\ chan = <<>>
  /\ phase = "none"

\* the main thread waits in select(), no Timer thread is about to call
RaceIdle ==
  /\ pc = [at |-> "select", todo |-> <<>>]
  /\ whole = {}
  /\ timers = [a \in Addr |-> "none"]

\* the variables of Spec are not used by NetSpec
NodeIdle ==
  /\ nodes = EmptyDict
  /\ sent = <<>>
  /\ last = NoOp
  /\ quiet = [a \in Addr |-> 0]
  /\ fires = [a \in Addr |-> 0]
  /\ firedAt = [a \in Addr |-> -1]
  /\ ops = 0

\* a datagram of type costsupdate from `sender` is received (line 487)
UpdateCosts(sender, direct, costs) ==
  /\ ops < MaxOps
  /\ nodes' = update_costs(nodes, me, sender, direct, costs)
  /\ sent' = <<>>
  /\ last' = [NoOp EXCEPT !.op = "costsupdate", !.addr = sender,
                          !.direct = IF in_network(nodes, sender) /\ nodes.at[sender].is_neighbor
                                     THEN None ELSE direct,
                          !.costs = costs, !.known = in_network(nodes, sender),
                          !.acted = TRUE]
  /\ quiet' = [quiet EXCEPT ![sender] = 0]
  /\ fires' = [fires EXCEPT ![sender] = 0]
  /\ firedAt' = [firedAt EXCEPT ![sender] = -1]
  /\ ops' = ops + 1
  /\ UNCHANGED <<netVars, raceVars>>

\* linkdown typed by the operator or received from the peer `addr`
LinkDown(addr) ==
  /\ ops < MaxOps
  /\ nodes' = linkdown(nodes, me, addr)
  /\ sent' = <<>>
  /\ last' = [NoOp EXCEPT !.op = "linkdown", !.addr = addr,
                          !.known = in_network(nodes, addr),
                          !.acted = linkdown_ok(nodes, addr),
                          !.pre = IF linkdown_ok(nodes, addr)
                                  THEN nodes.at[addr].direct ELSE None]
  /\ ops' = ops + 1
  /\ UNCHANGED <<quiet, fires, firedAt>>
  /\ UNCHANGED <<netVars, raceVars>>

\* linkup typed by the operator or received from the peer `addr`
LinkUp(addr) ==
  /\ ops < MaxOps
  /\ nodes' = linkup(nodes, me, addr)
  /\ sent' = <<>>
  /\ last' = [NoOp EXCEPT !.op = "linkup", !.addr = addr,
                          !.known = in_network(nodes, addr),
                          !.acted = linkup_ok(nodes, addr),
                          !.pre = IF last.op = "linkdown" /\ last.addr = addr /\ last.acted
                                  THEN last.pre ELSE None,
                          !.roundtrip = last.op = "linkdown" /\ last.addr = addr /\ last.acted]
  /\ ops' = ops + 1
  /\ UNCHANGED <<quiet, fires, firedAt>>
  /\ UNCHANGED <<netVars, raceVars>>

\* linkchange typed by the operator or received from the peer `addr`
LinkChange(addr, direct) ==
  /\ ops < MaxOps
  /\ nodes' = linkchange(nodes, me, addr, direct)
  /\ sent' = <<>>
  /\ last' = [NoOp EXCEPT !.op = "linkchange", !.addr = addr, !.direct = direct,
                          !.known = in_network(nodes, addr),
                          !.acted = linkchange_ok(nodes, addr, direct)]
  /\ ops' = ops + 1
  /\ UNCHANGED <<quiet, fires, firedAt>>
  /\ UNCHANGED <<netVars, raceVars>>

\* RepeatTimer.run: the periodic broadcaster calls broadcast_costs
Broadcast ==
  /\ sent' = broadcast_costs(nodes, me)
  /\ last' = [NoOp EXCEPT !.op = "broadcast"]
  /\ UNCHANGED <<nodes, quiet, fires, firedAt, ops>>
  /\ UNCHANGED <<netVars, raceVars>>

\* one broadcast interval passes (TimedSpec); a countdown that has run out
\* fires first
Tick ==
  /\ \A a \in Keys(nodes) : Running(nodes, a) => nodes.at[a].silence_monitor.left > 0
  /\ nodes' = [nodes EXCEPT !.at =
                 [a \in Keys(nodes) |->
                    IF Running(nodes, a)
                    THEN [nodes.at[a] EXCEPT !.silence_monitor.left = @ - 1]
                    ELSE nodes.at[a]]]
  /\ quiet' = [a \in Addr |-> IF Running(nodes, a) THEN Bump(quiet[a]) ELSE 0]
  /\ sent' = <<>>
  /\ last' = [NoOp EXCEPT !.op = "tick"]
  /\ UNCHANGED <<fires, firedAt, ops>>
  /\ UNCHANGED <<netVars, raceVars>>

\* Timer.run of the countdown of `addr`: the interval elapsed without
\* cancel, so func(*args) = linkdown(host, port) is called.  Spec leaves the
\* length of the interval open: a running countdown can run out at any time.
Expire(addr) ==
  /\ ops < MaxOps
  /\ Running(nodes, addr)
  /\ nodes' = linkdown(Set(nodes, addr,
                              [nodes.at[addr] EXCEPT !.silence_monitor.countdown = "fired"]),
                          me, addr)
  /\ sent' = <<>>
  /\ last' = [NoOp EXCEPT !.op = "expire", !.addr = addr,
                          !.acted = linkdown_ok(nodes, addr),
                          !.pre = IF linkdown_ok(nodes, addr)
                                  THEN nodes.at[addr].direct ELSE None]
  /\ fires' = [fires EXCEPT ![addr] = @ + 1]
  /\ firedAt' = [firedAt EXCEPT ![addr] = quiet[addr]]
  /\ ops' = ops + 1
  /\ UNCHANGED quiet
  /\ UNCHANGED <<netVars, raceVars>>

\* Expire when time is counted: the countdown has no interval left
TimedExpire(addr) ==
  /\ ops < MaxOps
  /\ Running(nodes, addr)
  /\ nodes.at[addr].silence_monitor.left = 0
  /\ Expire(addr)

Init == NodeInit /\ NetIdle /\ RaceIdle

Next ==
  \/ \E sender \in Addr, direct \in Directs, costs \in Vectors :
       UpdateCosts(sender, direct, costs)
  \/ \E addr \in Addr : LinkDown(addr)
  \/ \E addr \in Addr : LinkUp(addr)
  \/ \E addr \in Addr, direct \in NewDirects : LinkChange(addr, direct)
  \/ Broadcast
  \/ \E addr \in Addr : Expire(addr)

Spec == Init /\ [][Next]_vars

\* the vector every cost-update of TimedSpec carries (the monitors do not
\* depend on the vector)
TimedVector == [a \in Addr |-> 0]

TimedNext ==
  \/ \E sender \in Addr, direct \in Directs : UpdateCosts(sender, direct, TimedVector)
  \/ \E addr \in Addr : LinkDown(addr)
  \/ \E addr \in Addr : LinkUp(addr)
  \/ Tick
  \/ \E addr \in Addr : TimedExpire(addr)

TimedSpec == Init /\ [][TimedNext]_vars

\* payloads of received datagrams: each of the keys costs, neighbor, direct
\* present or missing
Payloads ==
  {c @@ n @@ d : c \in {<<>>, [costs |-> [a \in {"B", "C"} |-> 0]]},
                 n \in {<<>>, [neighbor |-> [direct |-> 1]]},
                 d \in {<<>>, [direct |-> 9]}}

\* datagrams a peer can send: the four kinds of the protocol and a kind that
\* is not part of it
Datagrams == [type : Kinds \cup {"hello"}, payload : Payloads]

\* the main loop takes datagram m of `sender` from the socket (lines 478-487);
\* after an uncaught exception there is no main loop
Receive(sender, m) ==
  /\ ops < MaxOps
  /\ ~last.raised
  /\ \E r \in {dispatch(nodes, me, sender, m)} :
       /\ nodes' = r.table
       /\ last' = [NoOp EXCEPT !.op = "receive", !.addr = sender, !.msg = m,
                               !.known = in_network(nodes, sender),
                               !.raised = r.raised]
  /\ sent' = <<>>
  /\ ops' = ops + 1
  /\ UNCHANGED <<quiet, fires, firedAt>>
  /\ UNCHANGED <<netVars, raceVars>>

RecvNext == \E sender \in Addr \ {me}, m \in Datagrams : Receive(sender, m)

RecvSpec == Init /\ [][RecvNext]_vars

-----------------------------------------------------------------------------
(* RaceSpec: the threads of one node.  The main thread runs the handlers,  *)
(* the RepeatTimer thread runs broadcast_costs, and every countdown is a   *)
(* Timer thread; no lock is taken anywhere, so the threads interleave      *)
(* between statements.  Of these interleavings RaceSpec takes: a           *)
(* cost-update in steps (the stores, then one destination of the           *)
(* estimate_costs loop per step), a broadcast between any two steps, the   *)
(* Timer thread in two steps (Timer.run finds `finished` not set; it calls *)
(* linkdown), and the link commands and the linkdown of a Timer thread in  *)
(* one step while the main thread is in select().                          *)

Select == [at |-> "select", todo |-> <<>>]

RaceStart ==
  /\ pc = Select
  /\ whole = {nodes}
  /\ timers = [a \in Addr |-> "none"]

\* reset() or cancel() of the monitor of addr: a Timer thread that has already
\* found its countdown not cancelled is not stopped by it
Supersede(addr) ==
  [timers EXCEPT ![addr] = IF @ = "checked" THEN "superseded" ELSE @]

\* update_costs up to the call of estimate_costs (lines 91-114)
RaceRecv(sender, direct, costs) ==
  /\ ops < MaxOps
  /\ pc.at = "select"
  /\ \E t \in {store(nodes, sender, direct, costs)} :
       /\ nodes' = t
       /\ pc' = [at |-> "estimate", todo |-> t.order]
  /\ timers' = Supersede(sender)
  /\ sent' = <<>>
  /\ last' = [NoOp EXCEPT !.op = "costsupdate", !.addr = sender, !.costs = costs,
                          !.known = in_network(nodes, sender)]
  /\ ops' = ops + 1
  /\ UNCHANGED <<quiet, fires, firedAt, whole>>
  /\ UNCHANGED netVars

\* one iteration of the loop of estimate_costs (lines 69-86)
RaceRelax ==
  /\ pc.at = "estimate"
  /\ \E t \in {relax_one(nodes, Head(pc.todo), me)} :
       /\ nodes' = t
       /\ whole' = IF Tail(pc.todo) = <<>> THEN whole \cup {t} ELSE whole
  /\ pc' = IF Tail(pc.todo) = <<>> THEN Select ELSE [pc EXCEPT !.todo = Tail(@)]
  /\ sent' = <<>>
  /\ last' = [NoOp EXCEPT !.op = "estimate", !.acted = Tail(pc.todo) = <<>>]
  /\ UNCHANGED <<quiet, fires, firedAt, ops, timers>>
  /\ UNCHANGED netVars

\* the RepeatTimer thread calls broadcast_costs (lines 35-38)
RaceBroadcast ==
  /\ sent' = broadcast_costs(nodes, me)
  /\ last' = [NoOp EXCEPT !.op = "broadcast"]
  /\ UNCHANGED <<nodes, quiet, fires, firedAt, ops>>
  /\ UNCHANGED <<netVars, raceVars>>

\* Timer.run of the countdown of addr: the interval elapsed and `finished`
\* is not set
TimerCheck(addr) ==
  /\ ops < MaxOps
  /\ Running(nodes, addr)
  /\ timers[addr] = "none"
  /\ timers' = [timers EXCEPT ![addr] = "checked"]
  /\ nodes' = Set(nodes, addr,
                  [nodes.at[addr] EXCEPT !.silence_monitor.countdown = "fired"])
  /\ sent' = <<>>
  /\ last' = [NoOp EXCEPT !.op = "timer", !.addr = addr]
  /\ ops' = ops + 1
  /\ UNCHANGED <<quiet, fires, firedAt, pc, whole>>
  /\ UNCHANGED netVars

\* Timer.run of the countdown of addr calls func(*args): linkdown(host, port)
TimerCall(addr) ==
  /\ pc.at = "select"
  /\ timers[addr] # "none"
  /\ \E t \in {linkdown(nodes, me, addr)} :
       /\ nodes' = t
       /\ whole' = whole \cup {t}
  /\ timers' = [timers EXCEPT ![addr] = "none"]
  /\ sent' = <<>>
  /\ last' = [NoOp EXCEPT !.op = "expire", !.addr = addr,
                          !.acted = linkdown_ok(nodes, addr)]
  /\ UNCHANGED <<quiet, fires, firedAt, ops, pc>>
  /\ UNCHANGED netVars

\* the operator types linkdown or linkup for addr
RaceLink(op, addr) ==
  /\ ops < MaxOps
  /\ pc.at = "select"
  /\ \E t \in {IF op = "linkdown" THEN linkdown(nodes, me, addr)
                                  ELSE linkup(nodes, me, addr)} :
       /\ nodes' = t
       /\ whole' = whole \cup {t}
  /\ timers' = IF op = "linkdown" /\ linkdown_ok(nodes, addr)
               THEN Supersede(addr) ELSE timers
  /\ sent' = <<>>
  /\ last' = [NoOp EXCEPT !.op = op, !.addr = addr,
                          !.known = in_network(nodes, addr),
                          !.acted = IF op = "linkdown" THEN linkdown_ok(nodes, addr)
                                                       ELSE linkup_ok(nodes, addr)]
  /\ ops' = ops + 1
  /\ UNCHANGED <<quiet, fires, firedAt, pc>>
  /\ UNCHANGED netVars

RaceNext ==
  \/ \E sender \in Addr \ {me}, direct \in Directs, costs \in Vectors :
       RaceRecv(sender, direct, costs)
  \/ RaceRelax
  \/ RaceBroadcast
  \/ \E addr \in Addr : TimerCheck(addr)
  \/ \E addr \in Addr : TimerCall(addr)
  \/ \E op \in {"linkdown", "linkup"}, addr \in Addr \ {me} : RaceLink(op, addr)

RaceInit == NodeInit /\ NetIdle /\ RaceStart

RaceSpec == RaceInit /\ [][RaceNext]_vars

-----------------------------------------------------------------------------
(* Properties of one node (Spec, TimedSpec) *)

\* neighbor.direct_cost + neighbor.advertised_costs.get(d, +infinity)
Candidate(t, n, d) ==
  IF d \in DOMAIN t.at[n].costs THEN Plus(t.at[n].direct, t.at[n].costs[d]) ELSE Inf

Neighbors(t) == {a \in Keys(t) : t.at[a].is_neighbor}

\* C1: in every reachable state the self node has cost 0, an empty route and
\* is not a neighbor, whatever messages (a cost-update from the node's own
\* address included), commands and monitor firings have been handled.
C1_SelfInvariant ==
  /\ me \in Keys(nodes)
  /\ nodes.at[me].cost = 0
  /\ nodes.at[me].route = ""
  /\ ~nodes.at[me].is_neighbor

\* C2: when a handler that recomputes has completed, every destination d
\* other than self with a finite cost has cost(d) = direct_cost(route(d)) +
\* advertised_costs(route(d))[d], route(d) is a current neighbor, and no
\* current neighbor offers a strictly smaller sum.
C2_TriangleConsistency ==
  last.acted =>
    \A d \in Keys(nodes) \ {me} :
      nodes.at[d].cost < Inf =>
        /\ nodes.at[d].route \in Neighbors(nodes)
        /\ nodes.at[d].cost = Candidate(nodes, nodes.at[d].route, d)
        /\ \A n \in Neighbors(nodes) : Candidate(nodes, n, d) >= nodes.at[d].cost

\* a recomputation chose between two neighbors offering different finite sums
C2_Witness ==
  /\ last.acted
  /\ \E d \in Keys(nodes) \ {me} :
       /\ nodes.at[d].cost < Inf
       /\ \E n \in Neighbors(nodes) :
            /\ n # nodes.at[d].route
            /\ Candidate(nodes, n, d) < Inf
            /\ Candidate(nodes, n, d) > nodes.at[d].cost

\* C3: after every recomputation the cost stored for a destination other
\* than self is +infinity or a finite value not above MAX_METRIC (16); a
\* candidate above 16 is never stored as a finite number.
C3_MetricCeiling ==
  last.acted =>
    \A d \in Keys(nodes) \ {me} :
      nodes.at[d].cost = Inf \/ nodes.at[d].cost <= 16

\* the only candidate for a destination is finite and above 16, and the
\* destination is stored with cost +infinity
C3_Witness ==
  /\ last.acted
  /\ \E d \in Keys(nodes) \ {me} :
       /\ nodes.at[d].cost = Inf
       /\ \E n \in Neighbors(nodes) :
            Candidate(nodes, n, d) > 16 /\ Candidate(nodes, n, d) < Inf

\* the vectors of the broadcast in progress poison exactly the destinations
\* routed through the receiving neighbor and carry the stored cost otherwise
PoisonReverse ==
  \A N \in DOMAIN sent :
    \A d \in Keys(nodes) \ {me, N} :
      /\ nodes.at[d].route = N => sent[N].costs[d] = Inf
      /\ nodes.at[d].route # N => sent[N].costs[d] = nodes.at[d].cost

\* C4 as stated: for every current neighbor N and destination d other than
\* self and N, the vector built for N advertises +infinity for d exactly when
\* route(d) = N, and the vectors built for the other neighbors advertise the
\* stored cost(d).  (Stated for tables whose self entry is intact, so that a
\* violation does not rest on a damaged self entry.)
C4_PoisonExactlyWhenRouted ==
  (last.op = "broadcast" /\ C1_SelfInvariant) =>
    \A N \in DOMAIN sent :
      \A d \in Keys(nodes) \ {me, N} :
        /\ sent[N].costs[d] = Inf <=> nodes.at[d].route = N
        /\ nodes.at[d].route = N =>
             \A M \in DOMAIN sent \ {N} : sent[M].costs[d] = nodes.at[d].cost

\* C4 (amended): a broadcast leaves the node table as it was, and for every
\* current neighbor N and destination d other than self and N the vector
\* built for N advertises +infinity for d when route(d) = N and the stored
\* cost(d) (itself +infinity for an unreachable d) otherwise; so a
\* destination routed through N is advertised with its stored cost to every
\* other neighbor.
C4_PoisonReverse ==
  [][last'.op = "broadcast" =>
       /\ nodes' = nodes
       /\ DOMAIN sent' = Neighbors(nodes)
       /\ PoisonReverse']_vars

\* a broadcast poisoned a reachable destination for the neighbor it is routed
\* through and advertised its stored cost to another neighbor
C4_Witness ==
  /\ last.op = "broadcast"
  /\ \E N \in DOMAIN sent, M \in DOMAIN sent :
       /\ M # N
       /\ \E d \in Keys(nodes) \ {me, N} :
            /\ nodes.at[d].route = N
            /\ nodes.at[d].cost < Inf
            /\ sent[N].costs[d] = Inf
            /\ sent[M].costs[d] = nodes.at[d].cost

\* C5: a countdown calls link-down at most once, and only when
\* 3 broadcast intervals have passed since the monitor was started or last
\* reset by a cost-update of its neighbor; a running countdown never outlives
\* its 3 intervals, and a countdown that ran out made exactly one call.
C5_SilenceMonitor ==
  \A a \in Addr :
    /\ fires[a] <= 1
    /\ fires[a] = 1 => firedAt[a] = TimeoutFactor
    /\ Running(nodes, a) => fires[a] = 0 /\ quiet[a] <= TimeoutFactor
    /\ (HasMonitor(nodes, a) /\ nodes.at[a].silence_monitor.countdown = "fired")
         => fires[a] = 1

\* a monitor that was reset by a cost-update ran out 3 intervals later and
\* brought its neighbor down
C5_Witness ==
  /\ last.op = "expire"
  /\ ops = MaxOps
  /\ fires[last.addr] = 1
  /\ firedAt[last.addr] = TimeoutFactor
  /\ ~nodes.at[last.addr].is_neighbor

\* C6: link-down(A) immediately followed by link-up(A), for a neighbor A with
\* direct cost c, leaves direct_cost(A) = c, is_neighbor(A) true and no
\* saved_direct_cost.
C6_LinkRoundTrip ==
  (last.op = "linkup" /\ last.roundtrip) =>
    /\ nodes.at[last.addr].direct = last.pre
    /\ nodes.at[last.addr].is_neighbor
    /\ "saved" \notin DOMAIN nodes.at[last.addr]

\* a link-up has just undone the link-down of a neighbor with a finite cost
C6_Witness ==
  /\ last.op = "linkup"
  /\ last.roundtrip
  /\ last.pre \in Directs

\* C7: between handlers a node has a running liveness monitor if and only if
\* it is a neighbor.
C7_MonitorIffNeighbor ==
  \A a \in Keys(nodes) : nodes.at[a].is_neighbor <=> Running(nodes, a)

\* C10: a cost-update from an address that is not a key of the node table
\* leaves an entry for it that is a neighbor, has the direct cost and the
\* vector of the message, and has a running liveness monitor.
C10_UnknownSender ==
  (last.op = "costsupdate" /\ ~last.known) =>
    /\ last.addr \in Keys(nodes)
    /\ nodes.at[last.addr].is_neighbor
    /\ nodes.at[last.addr].direct = last.direct
    /\ nodes.at[last.addr].costs = last.costs
    /\ Running(nodes, last.addr)

\* a cost-update from a never-configured address has just been handled
C10_Witness ==
  /\ last.op = "costsupdate"
  /\ ~last.known
  /\ last.addr # me

LinkOps == {"linkdown", "linkup", "linkchange"}

\* the precondition of link operation op on the known address a fails in
\* table t (direct: the new cost of a link-change)
PreconditionFails(t, op, a, direct) ==
  \/ op = "linkdown" /\ ~t.at[a].is_neighbor
  \/ op = "linkup" /\ "saved" \notin DOMAIN t.at[a]
  \/ op = "linkchange" /\ (~t.at[a].is_neighbor \/ "saved" \in DOMAIN t.at[a] \/ direct < 1)

\* C11: a link operation on a known node whose precondition fails (link-down
\* on a non-neighbor or down node, link-up without a saved cost, link-change
\* on a non-neighbor or down node or with a cost below 1) leaves the whole
\* node table, monitors and saved costs included, as it was.
C11_FailedPrecondition ==
  [][(/\ last'.op \in LinkOps
      /\ last'.addr \in Keys(nodes)
      /\ PreconditionFails(nodes, last'.op, last'.addr, last'.direct))
       => nodes' = nodes]_vars

\* a second link-down of a node that is already down was refused and its
\* saved cost is still the cost before the first link-down
C11_Witness ==
  /\ last.op = "linkdown"
  /\ last.known
  /\ ~last.acted
  /\ "saved" \in DOMAIN nodes.at[last.addr]
  /\ nodes.at[last.addr].saved \in Directs

\* C12: link-down, link-up or link-change applied to an address that is not
\* a key of the node table leaves the table, its set of keys included, as it
\* was.
C12_UnknownAddress ==
  [][(last'.op \in LinkOps /\ last'.addr \notin Keys(nodes)) => nodes' = nodes]_vars

\* datagram m is malformed: an unknown kind, a cost-update without the
\* sender's direct cost or without the vector, a link-change without the new
\* cost
Malformed(m) ==
  \/ m.type \notin Kinds
  \/ m.type = "costsupdate" /\ ("costs" \notin DOMAIN m.payload \/ "neighbor" \notin DOMAIN m.payload)
  \/ m.type = "linkchange" /\ "direct" \notin DOMAIN m.payload

\* C13: a malformed inbound datagram is dropped: the node table and the
\* monitors are as before, and the main loop goes on to the next datagram.
C13_MalformedDropped ==
  [][(last'.op = "receive" /\ Malformed(last'.msg))
       => nodes' = nodes /\ ~last'.raised]_vars

\* C14: every vector the broadcaster sends is the vector built from a table
\* that stood when a whole operation had completed (before the operation in
\* progress, or the table that operation ends with), never from a table
\* between a store and the end of the recomputation it triggers.
C14_WholeVectors ==
  last.op = "broadcast" =>
    \E t \in whole \cup {finish(nodes, pc.todo, me)} : sent = broadcast_costs(t, me)

\* C15: a Timer thread whose countdown was reset or cancelled before it
\* calls linkdown performs no link-down: the node table stays as it was.
C15_StaleFiring ==
  [][(last'.op = "expire" /\ timers[last'.addr] = "superseded") => nodes' = nodes]_vars

\* C16: between operations every destination with a non-empty route is routed
\* through a current neighbor; after link-down(N) nothing is routed through N.
C16_RouteIsNeighbor ==
  \A d \in Keys(nodes) :
    nodes.at[d].route # "" => nodes.at[d].route \in Neighbors(nodes)

\* the smallest candidate the current neighbors offer for destination d
MinCandidate(t, d) ==
  IF \A n \in Neighbors(t) : Candidate(t, n, d) = Inf THEN Inf
  ELSE CHOOSE c \in {Candidate(t, n, d) : n \in Neighbors(t)} :
         \A n \in Neighbors(t) : c <= Candidate(t, n, d)

\* C17: after every recomputation a destination other than self whose stored
\* cost is +infinity has an empty route, also when the best candidate is
\* finite and above the ceiling.  (Stated for tables whose self entry is
\* intact and for destinations whose best candidate is not exactly 16, so
\* that a violation rests neither on a damaged self entry nor on the value
\* of the ceiling.)
C17_UnreachableNoRoute ==
  (last.acted /\ C1_SelfInvariant) =>
    \A d \in Keys(nodes) \ {me} :
      (nodes.at[d].cost = Inf /\ MinCandidate(nodes, d) # 16) => nodes.at[d].route = ""

\* C18: the ceiling is 16, inclusive: after every recomputation a destination
\* other than self whose smallest candidate is at most 16 is stored with
\* exactly that cost and a neighbor offering it as route.  (Stated for tables
\* whose self entry is intact.)
C18_CeilingInclusive ==
  (last.acted /\ C1_SelfInvariant) =>
    \A d \in Keys(nodes) \ {me} :
      MinCandidate(nodes, d) <= 16 =>
        /\ nodes.at[d].cost = MinCandidate(nodes, d)
        /\ nodes.at[d].route \in Neighbors(nodes)
        /\ Candidate(nodes, nodes.at[d].route, d) = MinCandidate(nodes, d)

\* C20: a node taken down by link-down stays down (not a neighbor, its saved
\* direct cost present and unchanged) across every operation other than a
\* link-up applied to it, a cost-update received from it included.
C20_DownUntilLinkUp ==
  [][\A a \in Keys(nodes) :
       ("saved" \in DOMAIN nodes.at[a] /\ ~(last'.op = "linkup" /\ last'.addr = a))
         => /\ a \in Keys(nodes')
            /\ ~nodes'.at[a].is_neighbor
            /\ "saved" \in DOMAIN nodes'.at[a]
            /\ nodes'.at[a].saved = nodes.at[a].saved]_vars

-----------------------------------------------------------------------------
(* NetSpec: the triangle A, B, C.  Every node is started with the other two *)
(* as neighbors at direct cost 1.  The network is timely: a datagram is     *)
(* delivered before its sender sends the next one to the same node, so a    *)
(* channel holds at most one datagram and no silence monitor runs out.      *)
(* Datagrams of different channels are delivered in any order.              *)

Links == {<<x, y>> \in Addr \X Addr : x # y}

\* the command line of node x: the other two nodes, in order, at cost 1
TriangleConfig(x) ==
  LET others == SelectSeq(AddrSeq, LAMBDA a : a # x)
  IN <<<<others[1], 1>>, <<others[2], 1>>>>

NetInit ==
  /\ net = [x \in Addr |-> startup(x, TriangleConfig(x))]
  /\ chan = [l \in Links |-> <<>>]
  /\ phase = "up"

\* the entries of x for the other two nodes: cost 1, routed directly
Direct(x) ==
  \A y \in Addr \ {x} :
    /\ net[x].at[y].cost = 1
    /\ net[x].at[y].route = y

\* the vector node y sends once the triangle has converged
TrueVector(y) == [d \in Addr |-> IF d = y THEN 0 ELSE 1]

\* every node routes directly and holds the converged vector of each neighbor
Settled ==
  \A x \in Addr :
    /\ Direct(x)
    /\ \A y \in Addr \ {x} :
         net[x].at[y].is_neighbor /\ net[x].at[y].costs = TrueVector(y)

\* broadcast_costs at node x, one costsupdate datagram per neighbor; the
\* datagrams of the previous broadcast of x have been delivered
NetBroadcast(x) ==
  /\ \A y \in Addr \ {x} : chan[<<x, y>>] = <<>>
  /\ \E out \in {broadcast_costs(net[x], x)} :
        chan' = [l \in Links |->
                   IF l[1] = x /\ l[2] \in DOMAIN out
                   THEN Append(chan[l], [type |-> "costsupdate",
                                         costs |-> out[l[2]].costs,
                                         direct |-> out[l[2]].direct])
                   ELSE chan[l]]
  /\ UNCHANGED <<net, phase>>
  /\ UNCHANGED <<nodeVars, raceVars>>

\* the handler node y runs for datagram m of sender x (updates[update])
handle(t, y, x, m) ==
  IF m.type = "costsupdate" THEN update_costs(t, y, x, m.direct, m.costs)
  ELSE IF m.type = "linkdown" THEN linkdown(t, y, x)
  ELSE t

\* node y receives the datagram at the head of the channel from x
NetDeliver(x, y) ==
  /\ chan[<<x, y>>] # <<>>
  /\ chan' = [chan EXCEPT ![<<x, y>>] = Tail(@)]
  /\ \E m \in {Head(chan[<<x, y>>])} :
        /\ phase' = IF m.type = "linkdown" /\ phase = "downA" THEN "broken" ELSE phase
        /\ net' = [net EXCEPT ![y] = handle(net[y], y, x, m)]
  /\ UNCHANGED <<nodeVars, raceVars>>

\* the operator of node A types `linkdown B` in the converged triangle: the
\* peer is notified, then the command is performed on this side of the link
\* (lines 471-476)
NetLinkDownCmd ==
  /\ phase = "up"
  /\ Settled
  /\ chan[<<"A", "B">>] = <<>>
  /\ phase' = "downA"
  /\ chan' = [chan EXCEPT ![<<"A", "B">>] = Append(@, [type |-> "linkdown",
                                                       costs |-> <<>>,
                                                       direct |-> None])]
  /\ net' = [net EXCEPT !["A"] = linkdown(net["A"], "A", "B")]
  /\ UNCHANGED <<nodeVars, raceVars>>

NetNext ==
  \/ \E x \in Addr : NetBroadcast(x)
  \/ \E l \in Links : NetDeliver(l[1], l[2])
  \/ NetLinkDownCmd

\* three nodes started, the single-node state unused
NetStart == NodeIdle /\ NetInit /\ RaceIdle

NetSpec == NetStart /\ [][NetNext]_vars

\* the datagrams of node x: its broadcaster fires, or one of its datagrams in
\* flight is received
NetTraffic(x) ==
  \/ NetBroadcast(x)
  \/ \E y \in Addr \ {x} : NetDeliver(x, y)

\* the broadcaster of every node keeps firing and every datagram in flight is
\* eventually delivered: a broadcast waits for the datagrams of the previous
\* one, so the traffic of x goes on forever only if both happen
NetFairness == \A x \in Addr : WF_vars(NetTraffic(x))

NetFairSpec == NetSpec /\ NetFairness

-----------------------------------------------------------------------------
(* Properties of the triangle (NetFairSpec) *)

\* C8: in the triangle with direct costs 1, periodic broadcasts that are
\* eventually delivered and no link operation, every node eventually
\* reaches, and then keeps, cost 1 to each other node, routed through that
\* node itself.
C8_TriangleConverges == <>[](phase = "up" => \A x \in Addr : Direct(x))

\* every node has heard both neighbors and routes directly, no command typed
C8_Witness == Settled /\ phase = "up"

\* C9: in the converged triangle, once link-down of the A-B link has been
\* applied at A and mirrored at B, A's entry for C stays cost 1 via C, and
\* A's entry for B eventually becomes and stays cost 2 via C.
C9_LinkBreak ==
  /\ [](phase = "broken" =>
          net["A"].at["C"].cost = 1 /\ net["A"].at["C"].route = "C")
  /\ <>[](phase = "broken" =>
          net["A"].at["B"].cost = 2 /\ net["A"].at["B"].route = "C")

\* C19: no two neighboring nodes P and Q hold finite-cost entries for the same
\* destination d with P routing d through Q and Q routing d through P.
C19_NoTwoNodeLoop ==
  \A P \in Addr, Q \in Addr, d \in Addr :
    (/\ P # Q
     /\ Q \in Keys(net[P]) /\ net[P].at[Q].is_neighbor
     /\ P \in Keys(net[Q]) /\ net[Q].at[P].is_neighbor
     /\ d \in Keys(net[P]) /\ d \in Keys(net[Q]))
    => ~(/\ net[P].at[d].cost < Inf /\ net[P].at[d].route = Q
         /\ net[Q].at[d].cost < Inf /\ net[Q].at[d].route = P)

=============================================================================
